---- MODULE Spec2Model ----
(***************************************************************************)
(* A model of the conventional-commit lexer and parser of src/src/lib.rs.  *)
(*                                                                         *)
(* A Rust String is modelled as a sequence of characters (one-character    *)
(* strings); every character has a UTF-8 width, so that the byte length    *)
(* `input.len()` and byte-offset slicing `&input[p..]` are distinct from   *)
(* the character index used by `input.chars().nth(p)`.                     *)
(*                                                                         *)
(* Option<T> is a sequence of length 0 (None) or 1 (Some(x)).              *)
(***************************************************************************)
EXTENDS Integers, Sequences, FiniteSets, TLC

VARIABLES input, position, ret, tokens, commit, panicked

vars == <<input, position, ret, tokens, commit, panicked>>

-----------------------------------------------------------------------------
(* Bounds of the model.                                                    *)

\* Number of pieces appended after the header of a shaped input.
MaxTail == 2
\* Number of pieces of a free-form input.
MaxPieces == 3
\* Length of a token vector handed directly to parse_commit.
MaxTokens == 3

-----------------------------------------------------------------------------
(* Characters and strings.                                                 *)

None == << >>
Some(x) == << x >>

\* The three footer markers, as character sequences.
BREAKING_CHANGE ==
  << "B", "R", "E", "A", "K", "I", "N", "G", " ", "C", "H", "A", "N", "G", "E", ":" >>
REVIEWED_BY == << "R", "e", "v", "i", "e", "w", "e", "d", "-", "b", "y", ":" >>
REFS == << "R", "e", "f", "s", ":" >>

Letters ==
  { "a", "B", "R", "E", "A", "K", "I", "N", "G", "C", "H",
    "e", "v", "i", "w", "d", "b", "y", "f", "s" }

\* The one non-ASCII character of the model: U+00E9, two bytes in UTF-8.
EAcute == "U+00E9"

\* char::len_utf8
len_utf8(c) == IF c = EAcute THEN 2 ELSE 1

\* char::is_whitespace
is_whitespace(c) == c \in { " ", "\n" }

\* char::is_alphanumeric (U+00E9 is alphabetic)
is_alphanumeric(c) == c \in Letters \cup { EAcute }

\* The bytes the characters of s at the indices I take beyond one each.
RECURSIVE extra_bytes(_, _)
extra_bytes(s, I) ==
  IF I = {} THEN 0
  ELSE LET i == CHOOSE j \in I : TRUE
       IN  (len_utf8(s[i]) - 1) + extra_bytes(s, I \ { i })

\* Byte offset of the end of the first k characters of s: the sum of their
\* widths, one byte each plus the extra bytes of the multi-byte ones.
byte_offset(s, k) ==
  k + extra_bytes(s, { i \in 1 .. k : len_utf8(s[i]) > 1 })

\* String::len: the length in bytes.
len(s) == byte_offset(s, Len(s))

\* str::is_char_boundary
is_char_boundary(s, b) == \E k \in 0 .. Len(s) : byte_offset(s, k) = b

\* The number of characters that end at or before byte offset b.
char_index(s, b) == CHOOSE k \in 0 .. Len(s) : byte_offset(s, k) = b

\* &s[b..] for a byte offset b that is a character boundary.
slice_from(s, b) == SubSeq(s, char_index(s, b) + 1, Len(s))

\* s.split_at(b) for a byte offset b that is a character boundary.
split_at(s, b) ==
  << SubSeq(s, 1, char_index(s, b)), SubSeq(s, char_index(s, b) + 1, Len(s)) >>

\* s starts with pat at character index k (0-based).
matches_at(s, pat, k) ==
  /\ k + Len(pat) <= Len(s)
  /\ \A i \in 1 .. Len(pat) : s[k + i] = pat[i]

\* str::find: the byte offset of the first occurrence of pat in s.
find(s, pat) ==
  LET hits == { k \in 0 .. Len(s) : matches_at(s, pat, k) }
  IN  IF hits = {} THEN None
      ELSE Some(byte_offset(s, CHOOSE k \in hits : \A j \in hits : k <= j))

\* Option::or_else
or_else(a, b) == IF a # None THEN a ELSE b

RECURSIVE trim_start(_)
trim_start(s) ==
  IF s # << >> /\ is_whitespace(Head(s)) THEN trim_start(Tail(s)) ELSE s

RECURSIVE trim_end(_)
trim_end(s) ==
  IF s # << >> /\ is_whitespace(s[Len(s)])
  THEN trim_end(SubSeq(s, 1, Len(s) - 1)) ELSE s

\* str::trim
trim(s) == trim_end(trim_start(s))

-----------------------------------------------------------------------------
(* Tokens and results.                                                     *)

CommitType(t) == [kind |-> "CommitType", text |-> t]
Scope(t) == [kind |-> "Scope", text |-> t]
BreakingChangeMarker == [kind |-> "BreakingChangeMarker", text |-> << >>]
Description(t) == [kind |-> "Description", text |-> t]
Body(t) == [kind |-> "Body", text |-> t]
Footer(t) == [kind |-> "Footer", text |-> t]

\* What a scanning operation leaves behind: the cursor, how it ended
\* ("ok", "err" or "panic"), the error message and the tokens returned.
Ok(p, toks) == [pos |-> p, outcome |-> "ok", err |-> "", toks |-> toks]
Err(p, e) == [pos |-> p, outcome |-> "err", err |-> e, toks |-> << >>]
Panic(p) == [pos |-> p, outcome |-> "panic", err |-> "", toks |-> << >>]

-----------------------------------------------------------------------------
(* The Lexer.                                                              *)

\* Lexer::peek
peek(inp, pos) == IF pos < Len(inp) THEN Some(inp[pos + 1]) ELSE None

\* Lexer::next: the character consumed and the cursor after it.
next(inp, pos) ==
  IF pos < len(inp)
  THEN IF pos < Len(inp)
       THEN [pos |-> pos + 1, val |-> Some(inp[pos + 1])]
       ELSE [pos |-> pos, val |-> None]
  ELSE [pos |-> pos, val |-> None]

\* Lexer::skip_whitespace
RECURSIVE skip_whitespace(_, _)
skip_whitespace(inp, pos) ==
  LET c == peek(inp, pos)
  IN  IF c # None /\ is_whitespace(c[1])
      THEN skip_whitespace(inp, next(inp, pos).pos)
      ELSE pos

\* The loop of lex_commit_type: [pos, text, early], early when it returned
\* from inside the loop on '('.
RECURSIVE commit_type_loop(_, _, _)
commit_type_loop(inp, pos, acc) ==
  LET c == peek(inp, pos)
  IN  IF c = None THEN [pos |-> pos, text |-> acc, early |-> FALSE]
      ELSE IF is_alphanumeric(c[1])
           THEN commit_type_loop(inp, next(inp, pos).pos, Append(acc, c[1]))
           ELSE IF c[1] = "("
                THEN [pos |-> pos, text |-> acc, early |-> TRUE]
                ELSE [pos |-> pos, text |-> acc, early |-> FALSE]

\* Lexer::lex_commit_type
lex_commit_type(inp, pos) ==
  LET l == commit_type_loop(inp, skip_whitespace(inp, pos), << >>)
  IN  IF l.early THEN Ok(l.pos, << CommitType(l.text) >>)
      ELSE IF l.text # << >> THEN Ok(l.pos, << CommitType(l.text) >>)
           ELSE Err(l.pos, "Invalid commit type")

\* The loop of lex_scope.
RECURSIVE scope_loop(_, _, _)
scope_loop(inp, pos, acc) ==
  LET n == next(inp, pos)
  IN  IF n.val = None THEN Err(n.pos, "Unclosed scope")
      ELSE IF n.val[1] = ")" THEN Ok(n.pos, << Scope(acc) >>)
           ELSE scope_loop(inp, n.pos, Append(acc, n.val[1]))

\* Lexer::lex_scope
lex_scope(inp, pos) ==
  LET n == next(inp, pos)
  IN  IF n.val # Some("(") THEN Err(n.pos, "Expected '(' for scope")
      ELSE scope_loop(inp, n.pos, << >>)

\* Lexer::lex_breaking_change_marker
lex_breaking_change_marker(inp, pos) ==
  IF peek(inp, pos) = Some("!")
  THEN Ok(next(inp, pos).pos, << BreakingChangeMarker >>)
  ELSE Err(pos, "No breaking change marker")

\* The loop of lex_description.
RECURSIVE description_loop(_, _, _)
description_loop(inp, pos, acc) ==
  LET n == next(inp, pos)
  IN  IF n.val = None THEN [pos |-> n.pos, text |-> acc]
      ELSE IF n.val[1] = "\n" THEN [pos |-> n.pos, text |-> acc]
           ELSE description_loop(inp, n.pos, Append(acc, n.val[1]))

\* lex_description without its leading skip_whitespace.
lex_description_no_skip(inp, pos) ==
  LET l == description_loop(inp, pos, << >>)
  IN  IF l.text # << >> THEN Ok(l.pos, << Description(l.text) >>)
      ELSE Err(l.pos, "Missing description")

\* Lexer::lex_description
lex_description(inp, pos) ==
  LET l == description_loop(inp, skip_whitespace(inp, pos), << >>)
  IN  IF l.text # << >> THEN Ok(l.pos, << Description(l.text) >>)
      ELSE Err(l.pos, "Missing description")

\* The marker search of lex_body_and_footer: find(..).or_else(..).or_else(..)
find_marker(remaining_input) ==
  or_else(find(remaining_input, BREAKING_CHANGE),
          or_else(find(remaining_input, REVIEWED_BY),
                  find(remaining_input, REFS)))

\* lex_body_and_footer advancing the cursor by the length of the whole input
\* instead of the length of the remaining input.
lex_body_and_footer_whole_len(inp, pos) ==
  LET p == skip_whitespace(inp, pos)
  IN  IF ~ is_char_boundary(inp, p) THEN Panic(p)
      ELSE
        LET remaining_input == slice_from(inp, p)
            index == find_marker(remaining_input)
        IN  IF index # None
            THEN LET parts == split_at(remaining_input, index[1])
                     body == IF trim(parts[1]) # << >>
                             THEN << Body(trim(parts[1])) >> ELSE << >>
                     footer == << Footer(trim(parts[2])) >>
                 IN  Ok(p, body \o footer)
            ELSE IF remaining_input # << >>
                 THEN Ok(p + len(inp), << Body(trim(remaining_input)) >>)
                 ELSE Ok(p, << >>)

\* Lexer::lex_body_and_footer.  The slice &self.input[self.position..] takes
\* the character cursor as a byte offset and panics off a character boundary.
lex_body_and_footer(inp, pos) ==
  LET p == skip_whitespace(inp, pos)
  IN  IF ~ is_char_boundary(inp, p) THEN Panic(p)
      ELSE
        LET remaining_input == slice_from(inp, p)
            index == find_marker(remaining_input)
        IN  IF index # None
            THEN LET parts == split_at(remaining_input, index[1])
                     body == IF trim(parts[1]) # << >>
                             THEN << Body(trim(parts[1])) >> ELSE << >>
                     footer == << Footer(trim(parts[2])) >>
                 IN  Ok(p, body \o footer)
            ELSE IF remaining_input # << >>
                 THEN Ok(p + len(remaining_input), << Body(trim(remaining_input)) >>)
                 ELSE Ok(p, << >>)

\* Lexer::lex
lex(inp, pos) ==
  LET t == lex_commit_type(inp, pos)
  IN  IF t.outcome # "ok" THEN t
      ELSE
        LET s == IF peek(inp, t.pos) = Some("(")
                 THEN lex_scope(inp, t.pos) ELSE Ok(t.pos, << >>)
        IN  IF s.outcome # "ok" THEN s
            ELSE
              LET b == IF peek(inp, s.pos) = Some("!")
                       THEN lex_breaking_change_marker(inp, s.pos)
                       ELSE Ok(s.pos, << >>)
                  c == next(inp, b.pos)
              IN  IF b.outcome # "ok" THEN b
                  ELSE IF c.val # Some(":")
                       THEN Err(c.pos, "Expected ':' after commit type or scope")
                       ELSE
                         LET d == lex_description(inp, c.pos)
                         IN  IF d.outcome # "ok" THEN d
                             ELSE
                               LET bf == lex_body_and_footer(inp, d.pos)
                               IN  IF bf.outcome # "ok" THEN bf
                                   ELSE Ok(bf.pos,
                                           t.toks \o s.toks \o b.toks
                                             \o d.toks \o bf.toks)

-----------------------------------------------------------------------------
(* The parser.                                                             *)

\* The fields of parse_commit before the fold.
parse_init ==
  [commit_type |-> None, scope |-> None, breaking_change |-> FALSE,
   description |-> None, body |-> None, footer |-> None]

\* The match of parse_commit keeping the first Description instead of the last.
parse_step_first_description(acc, token) ==
  CASE token.kind = "CommitType" -> [acc EXCEPT !.commit_type = Some(token.text)]
    [] token.kind = "Scope" -> [acc EXCEPT !.scope = Some(token.text)]
    [] token.kind = "BreakingChangeMarker" -> [acc EXCEPT !.breaking_change = TRUE]
    [] token.kind = "Description" ->
         IF acc.description = None
         THEN [acc EXCEPT !.description = Some(token.text)] ELSE acc
    [] token.kind = "Body" -> [acc EXCEPT !.body = Some(token.text)]
    [] token.kind = "Footer" -> [acc EXCEPT !.footer = Some(token.text)]

\* One arm of the match in parse_commit.
parse_step(acc, token) ==
  CASE token.kind = "CommitType" -> [acc EXCEPT !.commit_type = Some(token.text)]
    [] token.kind = "Scope" -> [acc EXCEPT !.scope = Some(token.text)]
    [] token.kind = "BreakingChangeMarker" -> [acc EXCEPT !.breaking_change = TRUE]
    [] token.kind = "Description" -> [acc EXCEPT !.description = Some(token.text)]
    [] token.kind = "Body" -> [acc EXCEPT !.body = Some(token.text)]
    [] token.kind = "Footer" -> [acc EXCEPT !.footer = Some(token.text)]

\* The for loop of parse_commit.
RECURSIVE parse_fold(_, _)
parse_fold(acc, toks) ==
  IF toks = << >> THEN acc
  ELSE parse_fold(parse_step(acc, Head(toks)), Tail(toks))

\* ConventionalCommit::new
ConventionalCommit(commit_type, scope, breaking_change, description, body, footer) ==
  [commit_type |-> commit_type, scope |-> scope,
   breaking_change |-> breaking_change, description |-> description,
   body |-> body, footer |-> footer]

\* parse_commit: Ok(record) or Err(message).
parse_commit(toks) ==
  LET f == parse_fold(parse_init, toks)
  IN  IF f.commit_type # None
      THEN IF f.description # None
           THEN [ok |-> TRUE, err |-> "",
                 val |-> ConventionalCommit(f.commit_type[1], f.scope,
                                            f.breaking_change, f.description[1],
                                            f.body, f.footer)]
           ELSE [ok |-> FALSE, err |-> "Missing description", val |-> parse_init]
      ELSE [ok |-> FALSE, err |-> "Missing commit type", val |-> parse_init]

-----------------------------------------------------------------------------
(* Inputs.                                                                 *)

\* The pieces a free-form input is concatenated from.
Pieces ==
  { << "a" >>, << EAcute >>, << " " >>, << "\n" >>, << "(" >>, << ")" >>,
    << "!" >>, << ":" >>, REFS }

\* The pieces that follow the header of a shaped input.
TailPieces ==
  { << "a" >>, << EAcute >>, << "\n" >>, BREAKING_CHANGE, REVIEWED_BY, REFS }

\* All concatenations of at most n pieces of P.
RECURSIVE PieceSeqs(_, _)
PieceSeqs(P, n) ==
  IF n = 0 THEN { << >> }
  ELSE LET prev == PieceSeqs(P, n - 1)
       IN  prev \cup { s \o p : s \in prev, p \in P }

\* Headers: a type, a scope, a '!', a ':' and the start of a description,
\* each present, absent or broken.
Types == { << >>, << "a" >>, << EAcute >> }
Scopes ==
  { << >>, << "(" >>, << "(", ")" >>, << "(", "a", ")" >>, << "(", "!", ")" >> }
Bangs == { << >>, << "!" >> }
Colons == { << >>, << ":" >> }

Descriptions == { << >>, << "a" >>, << EAcute >> }

ShapedInputs ==
  { ty \o sc \o bg \o co \o de \o tl :
      ty \in Types, sc \in Scopes, bg \in Bangs, co \in Colons,
      de \in Descriptions, tl \in PieceSeqs(TailPieces, MaxTail) }

FreeInputs == PieceSeqs(Pieces, MaxPieces)

\* Token vectors handed to parse_commit directly.
Payloads == { << >>, << "a" >>, << "b" >> }
AnyToken ==
  { CommitType(t) : t \in Payloads } \cup { Scope(t) : t \in Payloads }
    \cup { BreakingChangeMarker } \cup { Description(t) : t \in Payloads }
    \cup { Body(t) : t \in { << "a" >> } } \cup { Footer(t) : t \in { << "b" >> } }

RECURSIVE TokenSeqs(_)
TokenSeqs(n) ==
  IF n = 0 THEN { << >> }
  ELSE LET prev == TokenSeqs(n - 1)
       IN  prev \cup { Append(s, t) : s \in prev, t \in AnyToken }

-----------------------------------------------------------------------------
(* The state machine.                                                      *)

\* Lexer::new, before any call.
NewRet == [op |-> "new", start |-> 0, outcome |-> "ok", err |-> "", toks |-> << >>]

InitLexer(inputs) ==
  /\ input \in inputs
  /\ position = 0
  /\ ret = NewRet
  /\ tokens = None
  /\ commit = None
  /\ panicked = FALSE

\* A call of a scanning operation on the Lexer that leaves r behind.
Call(op, r) ==
  /\ ~ panicked
  /\ position' = r.pos
  /\ ret' = [op |-> op, start |-> position, outcome |-> r.outcome,
             err |-> r.err, toks |-> r.toks]
  /\ panicked' = (r.outcome = "panic")
  /\ input' = input

LexCommitType ==
  /\ Call("lex_commit_type", lex_commit_type(input, position))
  /\ UNCHANGED << tokens, commit >>

LexScope ==
  /\ Call("lex_scope", lex_scope(input, position))
  /\ UNCHANGED << tokens, commit >>

LexBreakingChangeMarker ==
  /\ Call("lex_breaking_change_marker", lex_breaking_change_marker(input, position))
  /\ UNCHANGED << tokens, commit >>

LexDescription ==
  /\ Call("lex_description", lex_description(input, position))
  /\ UNCHANGED << tokens, commit >>

LexBodyAndFooter ==
  /\ Call("lex_body_and_footer", lex_body_and_footer(input, position))
  /\ UNCHANGED << tokens, commit >>

\* let tokens = lexer.lex()?
Lex ==
  LET r == lex(input, position)
  IN  /\ Call("lex", r)
      /\ tokens' = IF r.outcome = "ok" THEN Some(r.toks) ELSE None
      /\ commit' = None

\* let commit = parse_commit(tokens)
ParseCommit ==
  /\ ~ panicked
  /\ tokens # None
  /\ commit = None
  /\ commit' = Some(parse_commit(tokens[1]))
  /\ UNCHANGED << input, position, ret, tokens, panicked >>

\* The documented pipeline on one Lexer: lex, parse_commit, and a further
\* lex_body_and_footer on the same Lexer.
Init == InitLexer(ShapedInputs)
Next == Lex \/ ParseCommit \/ LexBodyAndFooter
Spec == Init /\ [][Next]_vars

\* Any sequence of the public scanning operations on one Lexer.
InitCalls == InitLexer(FreeInputs)
NextCalls ==
  \/ LexCommitType
  \/ LexScope
  \/ LexBreakingChangeMarker
  \/ LexDescription
  \/ LexBodyAndFooter
  \/ Lex
SpecCalls == InitCalls /\ [][NextCalls]_vars

\* parse_commit on an arbitrary token vector.
InitParse ==
  /\ input = << >>
  /\ position = 0
  /\ ret = NewRet
  /\ tokens \in { Some(s) : s \in TokenSeqs(MaxTokens) }
  /\ commit = None
  /\ panicked = FALSE
NextParse == ParseCommit
SpecParse == InitParse /\ [][NextParse]_vars

-----------------------------------------------------------------------------
(* The grammar of a header, stated on the text and not on the scanner.     *)

\* The characters of s after the first k.
Rest(s, k) == SubSeq(s, k + 1, Len(s))

\* The character at 0-based index p of s, "" past the end.
CharAt(s, p) == IF p < Len(s) THEN s[p + 1] ELSE ""

\* The length of the longest run of characters of s from 0-based index p on
\* that all satisfy Is.
RunLength(s, p, Is(_)) ==
  CHOOSE n \in 0 .. Len(s) :
    /\ p + n <= Len(s) \/ n = 0
    /\ \A i \in 1 .. n : Is(s[p + i])
    /\ p + n >= Len(s) \/ ~ Is(s[p + n + 1])

\* Where the parts of the header of s lie (0-based indices):
\*   ty .. op   the type,   op the character after it,
\*   cl         the first ')' after an opening '(' (Len(s) when there is none),
\*   bg         where a '!' may stand,   co   where the ':' must stand.
Header(s) ==
  LET ty == RunLength(s, 0, is_whitespace)
      op == ty + RunLength(s, ty, is_alphanumeric)
      scoped == CharAt(s, op) = "("
      closes == { j \in op + 1 .. Len(s) - 1 : s[j + 1] = ")" }
      cl == IF closes = {} THEN Len(s)
            ELSE CHOOSE j \in closes : \A k \in closes : j <= k
      bg == IF scoped THEN cl + 1 ELSE op
      breaking == CharAt(s, bg) = "!"
      co == IF breaking THEN bg + 1 ELSE bg
  IN  [type |-> SubSeq(s, ty + 1, op),
       scoped |-> scoped,
       closed |-> closes # {},
       scope |-> SubSeq(s, op + 2, cl),
       breaking |-> breaking,
       colon |-> CharAt(s, co) = ":",
       after |-> Rest(s, co + 1)]

\* The first structural violation of s, "" when there is none.
FirstViolation(s) ==
  LET h == Header(s)
  IN  IF h.type = << >> /\ ~ h.scoped THEN "Invalid commit type"
      ELSE IF h.scoped /\ ~ h.closed THEN "Unclosed scope"
      ELSE IF ~ h.colon THEN "Expected ':' after commit type or scope"
      ELSE IF \A i \in 1 .. Len(h.after) : is_whitespace(h.after[i])
           THEN "Missing description"
           ELSE ""

\* ret was left by a call of lex on a new Lexer.
FreshLex == ret.op = "lex" /\ ret.start = 0

\* The tokens of the given kind in toks, in order.
OfKind(toks, kind) == SelectSeq(toks, LAMBDA t : t.kind = kind)

\* The payload of the last token of the given kind, None when there is none.
LastOf(toks, kind) ==
  LET ks == OfKind(toks, kind)
  IN  IF ks = << >> THEN None ELSE Some(ks[Len(ks)].text)

Markers == { BREAKING_CHANGE, REVIEWED_BY, REFS }

\* The 0-based character indices of s at which one of the markers starts.
MarkerStarts(s) ==
  { k \in 0 .. Len(s) : \E m \in Markers : matches_at(s, m, k) }

-----------------------------------------------------------------------------
(* Claims.                                                                 *)

\* C1: a record that lex followed by parse_commit yields has a non-empty
\* commit_type and a non-empty description, and every CommitType token that
\* lex_commit_type returns (directly, or as the first token of lex) has a
\* non-empty payload.
C1_NonEmptyTypeAndDescription ==
  /\ (commit # None /\ commit[1].ok) =>
        /\ commit[1].val.commit_type # << >>
        /\ commit[1].val.description # << >>
  /\ (ret.op \in { "lex", "lex_commit_type" } /\ ret.outcome = "ok") =>
        ret.toks[1].text # << >>

\* C2: when the text lex_body_and_footer inspects holds one of the three
\* markers, it is split at the leftmost offset at which any marker starts:
\* the Footer is the trimmed text from there on, the Body the trimmed text
\* before it (omitted when empty), and the Body holds no marker.
C2_SplitAtLeftmostMarker ==
  (ret.op = "lex_body_and_footer" /\ ret.outcome = "ok") =>
     LET remaining == slice_from(input, skip_whitespace(input, ret.start))
         starts == MarkerStarts(remaining)
         first == CHOOSE k \in starts : \A j \in starts : k <= j
         before == trim(SubSeq(remaining, 1, first))
     IN  starts # {} =>
           /\ OfKind(ret.toks, "Footer") = << Footer(trim(Rest(remaining, first))) >>
           /\ OfKind(ret.toks, "Body") =
                (IF before = << >> THEN << >> ELSE << Body(before) >>)
           /\ \A i \in 1 .. Len(ret.toks) :
                ret.toks[i].kind = "Body" => MarkerStarts(ret.toks[i].text) = {}

\* C3: lex_body_and_footer never aborts, and the text it inspects is exactly
\* the characters the cursor has not consumed.
C3_BodyAndFooterNeverFails ==
  /\ ~ panicked
  /\ (ret.op = "lex_body_and_footer" /\ ret.outcome = "ok") =>
        LET p == skip_whitespace(input, ret.start)
        IN  slice_from(input, p) = Rest(input, p)

\* C4: for an input whose header is a type, an optional (scope), an optional
\* '!' and a ':' followed by a non-empty description, lex on a new Lexer
\* succeeds, and the record parse_commit makes of its tokens has the text
\* between '(' and the first ')' as its scope (None without parentheses) and
\* breaking_change exactly when a '!' stands right before the colon.
C4_ScopeAndBreakingChange ==
  (FreshLex /\ Header(input).type # << >> /\ FirstViolation(input) = "") =>
     /\ ret.outcome = "ok"
     /\ commit # None =>
          /\ commit[1].ok
          /\ commit[1].val.scope =
               (IF Header(input).scoped THEN Some(Header(input).scope) ELSE None)
          /\ commit[1].val.breaking_change = Header(input).breaking

\* The single-line inputs `type: description`: an alphanumeric type, a colon
\* and a description without a newline that is not all whitespace.
IsTypeColonDescription(s) ==
  LET h == Header(s)
  IN  /\ h.type # << >>
      /\ s = h.type \o << ":" >> \o h.after
      /\ \A i \in 1 .. Len(h.after) : h.after[i] # "\n"
      /\ \E i \in 1 .. Len(h.after) : ~ is_whitespace(h.after[i])

\* C5: for a single-line input `type: description`, lex on a new Lexer
\* succeeds with the type and the description alone, and parse_commit yields
\* scope None, breaking_change false, body None, footer None and the text
\* after the colon, less its leading whitespace, as the description.
C5_TypeColonDescription ==
  (FreshLex /\ IsTypeColonDescription(input)) =>
     /\ ret.outcome = "ok"
     /\ commit # None =>
          /\ commit[1].ok
          /\ commit[1].val =
               ConventionalCommit(Header(input).type, None, FALSE,
                                  trim_start(Header(input).after), None, None)

\* C6: parse_commit is a last-write-wins fold over any token vector: every
\* string field is the payload of the last token of its kind (None when
\* there is none), breaking_change holds exactly when a BreakingChangeMarker
\* occurs, and it fails with "Missing commit type" without a CommitType and
\* else with "Missing description" without a Description.
C6_LastWriteWins ==
  commit # None =>
    LET toks == tokens[1]
        c == commit[1]
    IN  IF LastOf(toks, "CommitType") = None
        THEN ~ c.ok /\ c.err = "Missing commit type"
        ELSE IF LastOf(toks, "Description") = None
             THEN ~ c.ok /\ c.err = "Missing description"
             ELSE /\ c.ok
                  /\ c.val.commit_type = LastOf(toks, "CommitType")[1]
                  /\ c.val.scope = LastOf(toks, "Scope")
                  /\ c.val.breaking_change =
                       (OfKind(toks, "BreakingChangeMarker") # << >>)
                  /\ c.val.description = LastOf(toks, "Description")[1]
                  /\ c.val.body = LastOf(toks, "Body")
                  /\ c.val.footer = LastOf(toks, "Footer")

\* C6 witness: a vector with two different Description tokens was parsed.
C6_Witness ==
  /\ commit # None
  /\ commit[1].ok
  /\ Len(OfKind(tokens[1], "Description")) = 2
  /\ OfKind(tokens[1], "Description")[1] # OfKind(tokens[1], "Description")[2]

\* C7: lex fails with exactly the error of the first structural violation of
\* the text from the cursor on, and returns no tokens then; it fails in no
\* other case, and never with the errors of lex_scope's missing '(' or
\* lex_breaking_change_marker's missing '!'.
C7_FirstStructuralViolation ==
  ret.op = "lex" =>
    LET v == FirstViolation(Rest(input, ret.start))
    IN  /\ v # "" => /\ ret.outcome = "err"
                    /\ ret.err = v
                    /\ ret.toks = << >>
                    /\ tokens = None
        /\ v = "" => ret.outcome # "err"
        /\ ret.err \notin { "No breaking change marker", "Expected '(' for scope" }

\* C7 witness: lex on a new Lexer met a colon with only whitespace after it.
C7_Witness ==
  /\ FreshLex
  /\ ret.err = "Missing description"
  /\ Header(input).after # << >>

\* C8: the tokens of a successful lex are CommitType, [Scope],
\* [BreakingChangeMarker], Description, [Body], [Footer] in this order, the
\* Description, Body and Footer payloads are non-empty, the Description has
\* no newline, and a Footer starts with one of the three markers.
KindRank(kind) ==
  CASE kind = "CommitType" -> 1
    [] kind = "Scope" -> 2
    [] kind = "BreakingChangeMarker" -> 3
    [] kind = "Description" -> 4
    [] kind = "Body" -> 5
    [] kind = "Footer" -> 6

C8_TokenOrder ==
  (ret.op = "lex" /\ ret.outcome = "ok") =>
    LET toks == ret.toks
    IN  /\ toks # << >>
        /\ toks[1].kind = "CommitType"
        /\ Len(OfKind(toks, "Description")) = 1
        /\ \A i, j \in 1 .. Len(toks) :
             i < j => KindRank(toks[i].kind) < KindRank(toks[j].kind)
        /\ \A i \in 1 .. Len(toks) :
             /\ toks[i].kind \in { "Description", "Body", "Footer" } =>
                  toks[i].text # << >>
             /\ toks[i].kind = "Description" =>
                  \A k \in 1 .. Len(toks[i].text) : toks[i].text[k] # "\n"
             /\ toks[i].kind = "Footer" =>
                  \E m \in Markers : matches_at(toks[i].text, m, 0)

\* C9: the cursor only moves forward, never passes the length of the input,
\* and the input is never modified.
C9_CursorMonotone ==
  /\ [][position' >= position /\ input' = input]_vars
  /\ [](position <= len(input))

\* C9 witness: lex_body_and_footer took a body and moved the cursor to the
\* end of an input that has a multi-byte character.
C9_Witness ==
  /\ ret.op = "lex_body_and_footer"
  /\ position > ret.start
  /\ position = len(input)
  /\ Len(input) < len(input)

\* C10: after a successful lex on a new Lexer the cursor is at the end of
\* the input, no character is left unconsumed, and a further call of
\* lex_body_and_footer returns (None, None).
C10_ExhaustedAfterLex ==
  (FreshLex /\ ret.outcome = "ok") =>
     /\ position = len(input)
     /\ Rest(input, position) = << >>
     /\ lex_body_and_footer(input, position).toks = << >>

====
